---- MODULE Spec2Model ----
(***************************************************************************)
(* Model of src/assets/upsell-modal.js: the upsell trigger, the dialog and *)
(* the content controller (cards, variant selectors, subtotal, confirm).   *)
(* The file holds two versions of the widget; `version` says which one is  *)
(* running (1 = lines 1-369, 2 = lines 371-595).                           *)
(***************************************************************************)
EXTENDS Integers, Sequences, FiniteSets, TLC

VARIABLES
    version,     \* which of the two versions of the controller is loaded
    moneyFormat, \* the <template ref="moneyFormat"> of the fragment, or NoTemplate
    frag,        \* per card, what the fragment fixes: main flag, variant JSON, select choices
    selects,     \* per card, the current value of each .upsell-variant-selector
    cards,       \* per card, dataset + checkbox + texts (what the handlers write)
    listening,   \* per card, whether connectedCallback registered click/change listeners
    subtotal,    \* text of .upsell-footer__subtotal-amount
    addedClass,  \* whether the attached fragment's confirm button carries 'atc-added'
    recording,   \* whether the history in `last` and `prev` is kept
    last,        \* the event handled most recently
    prev,        \* the toggle of the same card handled just before `last`, if any
    host,        \* contents of #upsell-modal-content
    fetches,     \* per trigger, how many of its fragment fetches are in flight
    latest,      \* history: the trigger whose activation started a fetch most recently
    lastFetch,   \* the fetch that completed most recently: its trigger and outcome
    stayVisible, \* per trigger, its stay-visible attribute
    closeOnce,   \* triggers holding a once-listener for the dialog's close event
    dialog,      \* the dialog: open flag, attachment, abort signal, listeners
    confirms,    \* per slot, a run of #handleConfirm that is awaiting its POST or its timer
    signal       \* the cart-update event dispatched most recently by a content controller

contentVars == <<version, moneyFormat, frag, selects, cards, listening, subtotal, addedClass>>
histVars == <<recording, prev>>
triggerVars == <<host, fetches, latest, lastFetch, stayVisible, closeOnce>>
confirmVars == <<confirms, signal>>
vars == <<contentVars, histVars, last, triggerVars, dialog, confirmVars>>

-----------------------------------------------------------------------------
(* Bounds of the model.                                                     *)
MaxFetches == 1   \* fragment fetches in flight at once, per trigger
MaxConfirms == 1  \* confirms awaiting their POST or timer at once

-----------------------------------------------------------------------------
(* JSON null and JavaScript undefined, as compared by === in the matcher. *)
Null == "null"
Undef == "undefined"

NoTemplate == [present |-> FALSE, prefix |-> "", placeholder |-> "", suffix |-> ""]
Template(pre, ph, suf) == [present |-> TRUE, prefix |-> pre, placeholder |-> ph, suffix |-> suf]

-----------------------------------------------------------------------------
(* Money formatting.                                                        *)

Digit(d) == <<"0", "1", "2", "3", "4", "5", "6", "7", "8", "9">>[d + 1]

RECURSIVE Digits(_)
Digits(n) == IF n < 10 THEN Digit(n) ELSE Digits(n \div 10) \o Digit(n % 10)

\* Faulty variant: the units are truncated instead of rounded.
toFixedIntTruncating(cents, precision) == cents \div 100

\* Number.prototype.toFixed on cents / 100: the integer part and the fraction digits.
\* toFixed(0) rounds a tie upwards (n / 1 - x closest to zero, the larger n on a tie).
toFixedInt(cents, precision) ==
    IF precision = 0 THEN (cents + 50) \div 100 ELSE cents \div 100

toFixedFrac(cents, precision) ==
    IF precision = 0 THEN "" ELSE Digit((cents % 100) \div 10) \o Digit(cents % 10)

\* a.replace(/\d(?=(\d\d\d)+(?!\d))/g, digit => digit + sep): a separator after every
\* digit that is followed by a multiple of three digits.
RECURSIVE groupThousands(_, _)
groupThousands(n, sep) ==
    IF n < 1000 THEN Digits(n)
    ELSE groupThousands(n \div 1000, sep) \o sep
           \o Digit((n % 1000) \div 100) \o Digit((n % 100) \div 10) \o Digit(n % 10)

thousandsSeparator(placeholder) ==
    CASE placeholder = "amount_with_comma_separator" -> "."
      [] placeholder = "amount_no_decimals_with_comma_separator" -> "."
      [] placeholder = "amount_no_decimals_with_space_separator" -> " "
      [] placeholder = "amount_with_space_separator" -> " "
      [] placeholder = "amount_with_period_and_space_separator" -> " "
      [] placeholder = "amount_with_apostrophe_separator" -> "'"
      [] OTHER -> ","

decimalSeparator(placeholder) ==
    CASE placeholder = "amount_with_comma_separator" -> ","
      [] placeholder = "amount_with_space_separator" -> ","
      [] OTHER -> "."

precisionOf(placeholder) ==
    CASE placeholder = "amount_no_decimals" -> 0
      [] placeholder = "amount_no_decimals_with_comma_separator" -> 0
      [] placeholder = "amount_no_decimals_with_space_separator" -> 0
      [] OTHER -> 2

\* The replace callback for one {{placeholder}}.
formatPlaceholder(cents, placeholder) ==
    LET precision == precisionOf(placeholder)
        a == groupThousands(toFixedInt(cents, precision), thousandsSeparator(placeholder))
        b == toFixedFrac(cents, precision)
    IN  IF precision <= 0 THEN a ELSE a \o decimalSeparator(placeholder) \o b

\* Version 1: template driven, (cents / 100).toFixed(2) without a template.
formatMoneyTemplate(cents, tpl) ==
    IF ~tpl.present
    THEN Digits(toFixedInt(cents, 2)) \o "." \o toFixedFrac(cents, 2)
    ELSE tpl.prefix \o formatPlaceholder(cents, tpl.placeholder) \o tpl.suffix

\* Version 2: toLocaleString('en-US', {style: 'currency', currency: 'USD'}).
formatMoneyLocale(cents) ==
    "$" \o groupThousands(cents \div 100, ",") \o "." \o toFixedFrac(cents, 2)

formatMoney(cents, ver, tpl) ==
    IF ver = 1 THEN formatMoneyTemplate(cents, tpl) ELSE formatMoneyLocale(cents)

-----------------------------------------------------------------------------
(* The fragment: cards as the server renders them.                          *)

Variant(id, o1, o2, o3, price, available, sku, image) ==
    [id |-> id, option1 |-> o1, option2 |-> o2, option3 |-> o3, price |-> price,
     available |-> available, sku |-> sku, image |-> image]

\* One option (size); M is sold out; L is priced above 1,000.00.
VariantsSize ==
    << Variant(11, "S", Null, Null, 1000, TRUE, "A-S", "s.png"),
       Variant(12, "M", Null, Null, 1500, FALSE, "", ""),
       Variant(13, "L", Null, Null, 123450, TRUE, "", "l.png") >>

\* Two options; the combinations S/B and M/R do not exist.
VariantsTwo ==
    << Variant(21, "S", "R", Null, 2000, TRUE, "B-SR", ""),
       Variant(22, "M", "B", Null, 2550, FALSE, "B-MB", "mb.png") >>

\* A list in which a variant without second option precedes one with it.
VariantsOpen ==
    << Variant(31, "S", Null, Null, 3000, TRUE, "", ""),
       Variant(32, "S", "R", Null, 3500, TRUE, "C-SR", "sr.png"),
       Variant(33, "M", "R", Null, 4000, FALSE, "", "") >>

\* Two options in the data while the card shows only the size selector.
VariantsHalf ==
    << Variant(61, "S", "R", Null, 1200, TRUE, "", ""),
       Variant(62, "M", "B", Null, 1300, TRUE, "", ""),
       Variant(63, "M", Null, Null, 1400, TRUE, "", ""),
       Variant(64, "L", Null, "B", 1600, TRUE, "", ""),
       Variant(65, "L", Null, Null, 1700, TRUE, "", "") >>

\* Three options, each with its selector.
VariantsThree ==
    << Variant(71, "S", "R", "L", 5000, TRUE, "", ""),
       Variant(72, "M", "B", Null, 5100, TRUE, "", ""),
       Variant(73, "M", "B", "S", 5200, TRUE, "", "") >>

\* A card as rendered: what the fragment fixes (main, variants, options) and the
\* initial value of everything the handlers read or write.
RenderedCard(main, variants, options, sel, id, price, selected, disabled) ==
    [main |-> main, variants |-> variants, options |-> options, selects |-> sel,
     variantId |-> id, price |-> price, priceText |-> "(rendered)",
     skuText |-> "(rendered)", img |-> "(rendered)",
     selected |-> selected, checked |-> selected, disabled |-> disabled,
     unavailable |-> (disabled /\ ~selected), badgeShown |-> (disabled /\ ~selected)]

SizeCard(main, selected) ==
    RenderedCard(main, VariantsSize, <<{"S", "M", "L"}>>, <<"S">>, 11, 1000, selected, FALSE)
\* rendered on a sold-out variant: checkbox disabled and unchecked
SoldOutCard(main) ==
    RenderedCard(main, VariantsTwo, <<{"S", "M"}, {"R", "B"}>>, <<"M", "B">>, 22, 2550, FALSE, TRUE)
OpenCard(main) ==
    RenderedCard(main, VariantsOpen, <<{"S", "M"}, {"R", "B"}>>, <<"S", "R">>, 32, 3500, TRUE, FALSE)
\* no variant JSON and no selectors
SimpleCard(main, selected) ==
    RenderedCard(main, <<>>, <<>>, <<>>, 41, 1500, selected, FALSE)
\* no resolvable variant: empty data-variant-id, checkbox disabled
NoVariantCard ==
    RenderedCard(FALSE, <<>>, <<>>, <<>>, 0, 0, FALSE, TRUE)
\* the anchor product with a checked checkbox the user cannot change
AnchorCard ==
    RenderedCard(TRUE, VariantsSize, <<{"S", "M", "L"}>>, <<"S">>, 11, 1000, TRUE, TRUE)

HalfCard ==
    RenderedCard(FALSE, VariantsHalf, <<{"S", "M", "L"}>>, <<"M">>, 63, 1400, FALSE, FALSE)
ThreeCard ==
    RenderedCard(FALSE, VariantsThree, <<{"S", "M"}, {"R", "B"}, {"L", "S"}>>,
                 <<"S", "R", "L">>, 71, 5000, FALSE, FALSE)

MainCards == {SizeCard(TRUE, TRUE), AnchorCard, SimpleCard(TRUE, TRUE)}
AddOnCards ==
    {SizeCard(FALSE, TRUE), SizeCard(FALSE, FALSE), SoldOutCard(FALSE), OpenCard(FALSE),
     SimpleCard(FALSE, FALSE), NoVariantCard}

Fragments ==
    {<<m, a>> : m \in MainCards, a \in AddOnCards}
      \cup {<<SimpleCard(TRUE, TRUE), SizeCard(FALSE, TRUE), SimpleCard(FALSE, FALSE)>>}
      \cup {<<SimpleCard(TRUE, TRUE), HalfCard>>, <<SimpleCard(TRUE, TRUE), ThreeCard>>}

-----------------------------------------------------------------------------
(* The content controller: state after connectedCallback, and its handlers. *)
(* A handler is an operator from the controller's DOM state                 *)
(* st = [cards, subtotal] to the state it leaves.                           *)

Cards == DOMAIN cards

StaticOf(r) == [main |-> r.main, variants |-> r.variants, options |-> r.options]
DynamicOf(r) ==
    [variantId |-> r.variantId, price |-> r.price, priceText |-> r.priceText,
     skuText |-> r.skuText, img |-> r.img, selected |-> r.selected, checked |-> r.checked,
     disabled |-> r.disabled, unavailable |-> r.unavailable, badgeShown |-> r.badgeShown]

\* querySelectorAll('.upsell-product-card[data-selected="true"]'), in document order,
\* summing parseInt(dataset.price).
RECURSIVE selectedTotal(_, _)
selectedTotal(cs, n) ==
    IF n = 0 THEN 0
    ELSE selectedTotal(cs, n - 1) + (IF cs[n].selected THEN cs[n].price ELSE 0)

\* Faulty variant: the sum runs over every card, selected or not.
updateSubtotalOfAll(st, ver, tpl) ==
    LET all == [c \in DOMAIN st.cards |-> [st.cards[c] EXCEPT !.selected = TRUE]]
    IN  [st EXCEPT !.subtotal = formatMoney(selectedTotal(all, Len(all)), ver, tpl)]

updateSubtotal(st, ver, tpl) ==
    [st EXCEPT !.subtotal = formatMoney(selectedTotal(st.cards, Len(st.cards)), ver, tpl)]

\* Faulty variant: the disabled checkbox is not consulted.
handleCardClickIgnoringDisabled(st, c, target, ver, tpl) ==
    IF ver = 1 /\ target \in {"checkbox", "select"} THEN st
    ELSE updateSubtotal(
           [st EXCEPT !.cards[c].checked = ~st.cards[c].checked,
                      !.cards[c].selected = ~st.cards[c].checked], ver, tpl)

\* #handleCardClick: version 1 ignores clicks whose target is the checkbox or a select.
handleCardClick(st, c, target, ver, tpl) ==
    IF ver = 1 /\ target \in {"checkbox", "select"} THEN st
    ELSE IF ~st.cards[c].disabled
         THEN updateSubtotal(
                [st EXCEPT !.cards[c].checked = ~st.cards[c].checked,
                           !.cards[c].selected = ~st.cards[c].checked], ver, tpl)
         ELSE st

\* #handleCheckboxChange: copies the checkbox's checked state into data-selected.
handleCheckboxChange(st, c, ver, tpl) ==
    updateSubtotal([st EXCEPT !.cards[c].selected = st.cards[c].checked], ver, tpl)

\* selectedOptions[i]: undefined beyond the card's selectors.
selectedOption(sel, i) == IF i <= Len(sel) THEN sel[i] ELSE Undef

\* Faulty variant: a missing selector matches any option value.
variantMatchesLoose(v, sel) ==
    /\ v.option1 = selectedOption(sel, 1)
    /\ (v.option2 = selectedOption(sel, 2) \/ v.option2 = Null \/ Len(sel) < 2)
    /\ (v.option3 = selectedOption(sel, 3) \/ v.option3 = Null \/ Len(sel) < 3)

\* The predicate of variants.find: strict equality with the value read at each position.
variantMatches(v, sel) ==
    /\ v.option1 = selectedOption(sel, 1)
    /\ (v.option2 = selectedOption(sel, 2) \/ v.option2 = Null)
    /\ (v.option3 = selectedOption(sel, 3) \/ v.option3 = Null)

\* Faulty variant: the last matching variant instead of the first.
findLastVariant(variants, sel) ==
    IF \E i \in DOMAIN variants : variantMatches(variants[i], sel)
    THEN CHOOSE i \in DOMAIN variants :
            /\ variantMatches(variants[i], sel)
            /\ \A j \in (i + 1)..Len(variants) : ~variantMatches(variants[j], sel)
    ELSE 0

\* variants.find(...): the index of the first matching variant, 0 when none matches.
findVariant(variants, sel) ==
    IF \E i \in DOMAIN variants : variantMatches(variants[i], sel)
    THEN CHOOSE i \in DOMAIN variants :
            /\ variantMatches(variants[i], sel)
            /\ \A j \in 1..(i - 1) : ~variantMatches(variants[j], sel)
    ELSE 0

\* Faulty variant: an unavailable variant disables the checkbox but leaves data-selected.
applyAvailabilityKeepingSelected(card, available) ==
    IF available
    THEN [card EXCEPT !.unavailable = FALSE, !.disabled = FALSE, !.checked = TRUE,
                      !.selected = TRUE, !.badgeShown = FALSE]
    ELSE [card EXCEPT !.unavailable = TRUE, !.disabled = TRUE, !.checked = FALSE,
                      !.badgeShown = TRUE]

\* The availability branch for a non-main card.
applyAvailability(card, available) ==
    IF available
    THEN [card EXCEPT !.unavailable = FALSE, !.disabled = FALSE, !.checked = TRUE,
                      !.selected = TRUE, !.badgeShown = FALSE]
    ELSE [card EXCEPT !.unavailable = TRUE, !.disabled = TRUE, !.checked = FALSE,
                      !.selected = FALSE, !.badgeShown = TRUE]

\* Faulty variant: a combination without a variant is treated as an unavailable one.
handleVariantChangeMissDisables(st, c, f, sel, ver, tpl) ==
    LET m == findVariant(f.variants, sel) IN
    IF f.variants = <<>> THEN st
    ELSE IF m = 0
         THEN updateSubtotal(
                [st EXCEPT !.cards[c] = applyAvailability(st.cards[c], FALSE)], ver, tpl)
         ELSE LET v == f.variants[m]
                  written == [st.cards[c] EXCEPT
                                 !.variantId = v.id,
                                 !.price = v.price,
                                 !.priceText = formatMoney(v.price, ver, tpl),
                                 !.skuText = IF v.sku # "" THEN "SKU: " \o v.sku ELSE "",
                                 !.img = IF v.image # "" THEN v.image ELSE @]
                  card == IF f.main THEN written ELSE applyAvailability(written, v.available)
              IN  updateSubtotal([st EXCEPT !.cards[c] = card], ver, tpl)

\* #handleVariantChange on card c, whose fragment data is f and whose selectors now read sel.
handleVariantChange(st, c, f, sel, ver, tpl) ==
    LET m == findVariant(f.variants, sel) IN
    IF f.variants = <<>> \/ m = 0 THEN st
    ELSE LET v == f.variants[m]
             written == [st.cards[c] EXCEPT
                            !.variantId = v.id,
                            !.price = v.price,
                            !.priceText = formatMoney(v.price, ver, tpl),
                            !.skuText = IF v.sku # "" THEN "SKU: " \o v.sku ELSE "",
                            !.img = IF v.image # "" THEN v.image ELSE @]
             card == IF f.main THEN written ELSE applyAvailability(written, v.available)
         IN  updateSubtotal([st EXCEPT !.cards[c] = card], ver, tpl)

\* connectedCallback: listeners only for cards whose checkbox is enabled at that moment.
listenersAtConnect(rendered) == [c \in DOMAIN rendered |-> ~rendered[c].disabled]

connectedState(rendered, ver, tpl) ==
    updateSubtotal([cards |-> [c \in DOMAIN rendered |-> DynamicOf(rendered[c])],
                    subtotal |-> "(rendered)"], ver, tpl)

-----------------------------------------------------------------------------
(* History, kept only while `recording`: the event handled last; for a     *)
(* toggle (a card click, a checkbox click) also the state it started from,  *)
(* and in `prev` the toggle of the same card handled just before it.        *)

NoSnapshot == [cards |-> <<>>, subtotal |-> ""]
NoRun ==
    [op |-> "none", card |-> 0, matched |-> 0, trigger |-> "", wasSelected |-> FALSE,
     before |-> NoSnapshot]

Toggles == {"clickCard", "clickCheckbox"}

Event(op, c, m, t) ==
    [op |-> op, card |-> c, matched |-> m, trigger |-> t,
     wasSelected |-> (c \in DOMAIN cards /\ cards[c].selected),
     before |-> IF op \in Toggles THEN [cards |-> cards, subtotal |-> subtotal]
                ELSE NoSnapshot]

Record(op, c, m, t) ==
    /\ recording' = recording
    /\ last' = IF recording THEN Event(op, c, m, t) ELSE last
    /\ prev' = IF recording /\ op \in Toggles /\ last.op \in Toggles /\ last.card = c
               THEN last ELSE NoRun

DomState == [cards |-> cards, subtotal |-> subtotal]

\* Money templates the fragment may carry.
MoneyFormats ==
    {NoTemplate, Template("", "amount_no_decimals", ""),
     Template("", "amount_with_comma_separator", " EUR")}

-----------------------------------------------------------------------------
(* User events on the attached fragment. The user reaches the fragment only *)
(* while the dialog shows it.                                               *)

Interactive == dialog.open /\ host.kind = "markup"

ContentFrame ==
    /\ UNCHANGED <<version, moneyFormat, frag, listening, addedClass>>
    /\ UNCHANGED <<triggerVars, dialog, confirmVars>>

\* A click on the card outside its checkbox and selectors.
ClickCard(c) ==
    /\ Interactive
    /\ LET st == IF listening[c]
                 THEN handleCardClick(DomState, c, "card", version, moneyFormat)
                 ELSE DomState
       IN  /\ cards' = st.cards
           /\ subtotal' = st.subtotal
    /\ UNCHANGED selects
    /\ ContentFrame
    /\ Record("clickCard", c, 0, "")

\* A click on the checkbox: the browser flips it, the click bubbles to the card,
\* then the change event fires. A disabled checkbox receives no click.
ClickCheckbox(c) ==
    /\ Interactive
    /\ ~cards[c].disabled
    /\ LET flipped == [DomState EXCEPT !.cards[c].checked = ~cards[c].checked]
           bubbled == IF listening[c]
                      THEN handleCardClick(flipped, c, "checkbox", version, moneyFormat)
                      ELSE flipped
           st == IF listening[c] THEN handleCheckboxChange(bubbled, c, version, moneyFormat)
                 ELSE bubbled
       IN  /\ cards' = st.cards
           /\ subtotal' = st.subtotal
    /\ UNCHANGED selects
    /\ ContentFrame
    /\ Record("clickCheckbox", c, 0, "")

\* A click that opens selector i of card c; it bubbles to the card.
ClickSelect(c, i) ==
    /\ Interactive
    /\ i \in DOMAIN selects[c]
    /\ LET st == IF listening[c]
                 THEN handleCardClick(DomState, c, "select", version, moneyFormat)
                 ELSE DomState
       IN  /\ cards' = st.cards
           /\ subtotal' = st.subtotal
    /\ UNCHANGED selects
    /\ ContentFrame
    /\ Record("clickSelect", c, 0, "")

\* The user picks value v in selector i of card c. Only version 1 registers a change
\* listener on the selectors (line 130).
ChangeSelect(c, i, v) ==
    /\ Interactive
    /\ version = 1
    /\ i \in DOMAIN selects[c]
    /\ v \in frag[c].options[i] \ {selects[c][i]}
    /\ LET sel == [selects[c] EXCEPT ![i] = v]
           st == handleVariantChange(DomState, c, frag[c], sel, version, moneyFormat)
       IN  /\ selects' = [selects EXCEPT ![c] = sel]
           /\ cards' = st.cards
           /\ subtotal' = st.subtotal
           /\ Record("changeSelect", c, findVariant(frag[c].variants, sel), "")
    /\ ContentFrame

OptionValues == {"S", "M", "L", "R", "B"}

-----------------------------------------------------------------------------
(* The dialog (DialogComponent comes from the theme: show and close are the *)
(* two-state machine the specification describes).                          *)

showDialog(d) == [d EXCEPT !.open = TRUE]

\* closeDialog closes an open dialog; the DialogCloseEvent it dispatches then runs the
\* triggers' once-listeners, which clear stay-visible.
CloseDialog ==
    IF dialog.open
    THEN /\ dialog' = [dialog EXCEPT !.open = FALSE,
                                     !.reflowed = IF recording THEN dialog.closeListener ELSE @]
         /\ stayVisible' = [t \in DOMAIN stayVisible |->
                               IF t \in closeOnce THEN FALSE ELSE stayVisible[t]]
         /\ closeOnce' = {}
    ELSE UNCHANGED <<dialog, stayVisible, closeOnce>>

\* Faulty variant: the payload is not looked at.
HandleCartUpdateAlways(didError) ==
    IF dialog.cartListener
    THEN CloseDialog
    ELSE UNCHANGED <<dialog, stayVisible, closeOnce>>

\* Faulty variant: the didError test is inverted.
HandleCartUpdateOnError(didError) ==
    IF dialog.cartListener /\ didError
    THEN CloseDialog
    ELSE UNCHANGED <<dialog, stayVisible, closeOnce>>

\* handleCartUpdate, reached only while the cart-update listener is registered.
HandleCartUpdate(didError) ==
    IF dialog.cartListener /\ ~didError
    THEN CloseDialog
    ELSE UNCHANGED <<dialog, stayVisible, closeOnce>>

\* The dialog is dismissed by its own controls (Escape, backdrop).
DismissDialog ==
    /\ dialog.open
    /\ dialog.connected
    /\ CloseDialog
    /\ Record("dismiss", 0, 0, "")
    /\ UNCHANGED <<contentVars, host, fetches, latest, lastFetch, confirmVars>>

\* #handleClose: the fragment's close button (version 1 only, line 125).
ClickClose ==
    /\ Interactive
    /\ version = 1
    /\ Len(cards) > 0
    /\ CloseDialog
    /\ Record("clickClose", 0, 0, "")
    /\ UNCHANGED <<contentVars, host, fetches, latest, lastFetch, confirmVars>>

-----------------------------------------------------------------------------
(* The trigger.                                                             *)

Triggers == {"t1", "t2", "t3"}

\* data-product-handle and data-error-message of each trigger ("" when absent).
productHandle(t) == CASE t = "t1" -> "h1" [] t = "t2" -> "h2" [] OTHER -> ""
errorMessage(t) == CASE t = "t1" -> "Back soon." [] OTHER -> ""

DefaultErrorMessage == "Unable to load products. Please try again."

\* Faulty variant: data-error-message is not read.
fallbackMarkupDefaultOnly(t) ==
    "<p style=\"padding: 2rem; text-align: center;\">" \o DefaultErrorMessage \o "</p>"

fallbackMarkup(t) ==
    "<p style=\"padding: 2rem; text-align: center;\">"
      \o (IF errorMessage(t) # "" THEN errorMessage(t) ELSE DefaultErrorMessage) \o "</p>"

\* a main product without a variant id: rendered selected, its checkbox disabled
OrphanCard == RenderedCard(TRUE, <<>>, <<>>, <<>>, 0, 700, TRUE, TRUE)

\* an add-on without variants, rendered unselected
ExtraCard == RenderedCard(FALSE, <<>>, <<>>, <<>>, 42, 2000, FALSE, FALSE)

\* What the server renders for a product handle.
ServerFragment(h) ==
    IF h = "h1"
    THEN [cards |-> <<OrphanCard, SimpleCard(FALSE, TRUE), ExtraCard>>,
          moneyFormat |-> NoTemplate]
    ELSE [cards |-> <<SoldOutCard(TRUE)>>,
          moneyFormat |-> Template("", "amount_with_comma_separator", " EUR")]

\* Faulty variant: a trigger without a product handle fetches all the same.
TriggerClickNoHandleCheck(t) ==
    /\ fetches[t] < MaxFetches
    /\ IF dialog.connected
       THEN /\ fetches' = [fetches EXCEPT ![t] = @ + 1]
            /\ latest' = IF recording THEN t ELSE latest
       ELSE UNCHANGED <<fetches, latest>>
    /\ Record("triggerClick", 0, 0, t)
    /\ UNCHANGED <<contentVars, host, lastFetch, stayVisible, closeOnce, dialog, confirmVars>>

\* handleClick: without a product handle nothing happens; #fetchAndOpenModal returns
\* early unless the dialog element is in the document; otherwise the fetch starts.
TriggerClick(t) ==
    /\ fetches[t] < MaxFetches
    /\ IF productHandle(t) # "" /\ dialog.connected
       THEN /\ fetches' = [fetches EXCEPT ![t] = @ + 1]
            /\ latest' = IF recording THEN t ELSE latest
       ELSE UNCHANGED <<fetches, latest>>
    /\ Record("triggerClick", 0, 0, t)
    /\ UNCHANGED <<contentVars, host, lastFetch, stayVisible, closeOnce, dialog, confirmVars>>

\* Faulty variant: the once-listener for the dialog's close event is not registered.
OpenAfterFetchNoListener(t) ==
    /\ stayVisible' = [stayVisible EXCEPT ![t] = TRUE]
    /\ closeOnce' = closeOnce
    /\ dialog' = showDialog(dialog)

\* The lines after the try/catch: stay visible until the dialog closes, show the dialog.
OpenAfterFetch(t) ==
    /\ stayVisible' = [stayVisible EXCEPT ![t] = TRUE]
    /\ closeOnce' = closeOnce \cup {t}
    /\ dialog' = showDialog(dialog)

\* Replacing the host's contents detaches the controller that was in it: the confirms
\* it still has in flight belong to a detached element from then on.
Detached(cs) == [k \in DOMAIN cs |-> [cs[k] EXCEPT !.attached = FALSE]]

\* The response of a fetch of trigger t arrived (fetch resolves for success and for
\* error statuses alike) and its text replaces the content host. With the product's
\* fragment the new content controller connects; an error page holds none.
FetchResolve(t, ok) ==
    /\ fetches[t] > 0
    /\ fetches' = [fetches EXCEPT ![t] = @ - 1]
    /\ IF ok
       THEN LET sf == ServerFragment(productHandle(t))
                st == connectedState(sf.cards, version, sf.moneyFormat)
            IN  /\ host' = [kind |-> "markup", text |-> productHandle(t)]
                /\ moneyFormat' = sf.moneyFormat
                /\ frag' = [c \in DOMAIN sf.cards |-> StaticOf(sf.cards[c])]
                /\ selects' = [c \in DOMAIN sf.cards |-> sf.cards[c].selects]
                /\ listening' = listenersAtConnect(sf.cards)
                /\ cards' = st.cards
                /\ subtotal' = st.subtotal
       ELSE /\ host' = [kind |-> "markup", text |-> "(error page)"]
            /\ moneyFormat' = NoTemplate
            /\ frag' = <<>> /\ selects' = <<>> /\ listening' = <<>> /\ cards' = <<>>
            /\ subtotal' = ""
    /\ addedClass' = FALSE
    /\ confirms' = Detached(confirms)
    /\ OpenAfterFetch(t)
    /\ lastFetch' = [trigger |-> t, outcome |-> IF ok THEN "ok" ELSE "errorStatus"]
    /\ Record(IF ok THEN "fetchOk" ELSE "fetchErrorStatus", 0, 0, t)
    /\ UNCHANGED <<version, latest, signal>>

\* A fetch of trigger t (or reading its body) failed: the catch block writes the
\* fallback message.
FetchReject(t) ==
    /\ fetches[t] > 0
    /\ fetches' = [fetches EXCEPT ![t] = @ - 1]
    /\ host' = [kind |-> "fallback", text |-> fallbackMarkup(t)]
    /\ moneyFormat' = NoTemplate
    /\ frag' = <<>> /\ selects' = <<>> /\ listening' = <<>> /\ cards' = <<>>
    /\ subtotal' = ""
    /\ addedClass' = FALSE
    /\ confirms' = Detached(confirms)
    /\ OpenAfterFetch(t)
    /\ lastFetch' = [trigger |-> t, outcome |-> "rejected"]
    /\ Record("fetchReject", 0, 0, t)
    /\ UNCHANGED <<version, latest, signal>>

-----------------------------------------------------------------------------
(* Confirm: build the items, POST them, and on success emit cart-update     *)
(* after the animation delay.                                               *)

AnimationDelayMs == 2000

\* A slot without a confirm in flight.
Idle ==
    [phase |-> "idle", attached |-> FALSE, body |-> <<>>, response |-> "none",
     added |-> FALSE, timer |-> 0]

\* Faulty variant: cards without a variant id are not skipped.
RECURSIVE collectItemsUnfiltered(_, _)
collectItemsUnfiltered(cs, n) ==
    IF n = 0 THEN <<>>
    ELSE collectItemsUnfiltered(cs, n - 1)
           \o (IF cs[n].selected
               THEN <<[id |-> cs[n].variantId, quantity |-> 1]>>
               ELSE <<>>)

\* The forEach over the selected cards: one entry per selected card with a variant id.
RECURSIVE collectItems(_, _)
collectItems(cs, n) ==
    IF n = 0 THEN <<>>
    ELSE collectItems(cs, n - 1)
           \o (IF cs[n].selected /\ cs[n].variantId # 0
               THEN <<[id |-> cs[n].variantId, quantity |-> 1]>>
               ELSE <<>>)

FreeSlots == {k \in DOMAIN confirms : confirms[k].phase = "idle"}

\* #handleConfirm up to the fetch call: with no items it returns, otherwise the POST
\* with body {items} is sent.
Confirm ==
    /\ Interactive
    /\ Len(cards) > 0
    /\ FreeSlots # {}
    /\ LET items == collectItems(cards, Len(cards))
           k == CHOOSE f \in FreeSlots : \A g \in FreeSlots : f <= g
       IN  /\ confirms' = IF Len(items) = 0 THEN confirms
                          ELSE [confirms EXCEPT ![k] =
                                  [phase |-> "post", attached |-> TRUE, body |-> items,
                                   response |-> "none", added |-> FALSE, timer |-> 0]]
           /\ Record("confirm", 0, Len(items), "")
    /\ UNCHANGED <<contentVars, triggerVars, dialog, signal>>

\* How the confirm that finished last ended when its POST failed: the catch logs the
\* error and emits nothing.
Caught(k, response) ==
    [confirm |-> k, emitted |-> FALSE, didError |-> FALSE, added |-> FALSE,
     response |-> response, delay |-> 0, observed |-> FALSE]

\* Faulty variant: response.ok is not checked.
afterResponseUnchecked(c, ok) ==
    [c EXCEPT !.phase = "timer", !.added = TRUE, !.body = <<>>, !.timer = AnimationDelayMs]

\* What #handleConfirm does with the response of confirm c: a non-ok status throws into
\* the catch; otherwise the confirm button gets 'atc-added' and the timer is set.
afterResponse(c, ok) ==
    IF ok
    THEN [c EXCEPT !.phase = "timer", !.added = TRUE, !.body = <<>>,
                   !.timer = AnimationDelayMs]
    ELSE Idle

\* The POST of confirm k returned a response, with an ok status or not.
PostRespond(k, ok) ==
    /\ k \in DOMAIN confirms
    /\ confirms[k].phase = "post"
    /\ LET c == afterResponse([confirms[k] EXCEPT !.response = IF ok THEN "ok" ELSE "error"], ok)
       IN  /\ confirms' = [confirms EXCEPT ![k] = c]
           /\ addedClass' = IF c.added /\ c.attached THEN TRUE ELSE addedClass
           /\ signal' = IF c.phase = "idle" THEN Caught(k, "error") ELSE signal
    /\ Record(IF ok THEN "postOk" ELSE "postNotOk", k, 0, "")
    /\ UNCHANGED <<version, moneyFormat, frag, selects, cards, listening, subtotal>>
    /\ UNCHANGED <<triggerVars, dialog>>

\* The POST of confirm k was rejected (network failure): caught and logged.
PostFail(k) ==
    /\ k \in DOMAIN confirms
    /\ confirms[k].phase = "post"
    /\ confirms' = [confirms EXCEPT ![k] = Idle]
    /\ signal' = Caught(k, "rejected")
    /\ Record("postFail", k, 0, "")
    /\ UNCHANGED <<contentVars, triggerVars, dialog>>

\* The timer of confirm k fires: its controller dispatches a bubbling cart-update
\* event, which reaches the dialog when that controller is still in the content host.
TimerFire(k) ==
    /\ k \in DOMAIN confirms
    /\ confirms[k].phase = "timer"
    /\ confirms' = [confirms EXCEPT ![k] = Idle]
    /\ IF confirms[k].attached
       THEN HandleCartUpdate(FALSE)
       ELSE UNCHANGED <<dialog, stayVisible, closeOnce>>
    /\ signal' = [confirm |-> k, emitted |-> TRUE, didError |-> FALSE,
                  added |-> confirms[k].added,
                  response |-> confirms[k].response, delay |-> confirms[k].timer,
                  observed |-> (confirms[k].attached /\ dialog.cartListener)]
    /\ Record("timerFire", k, 0, "")
    /\ UNCHANGED <<contentVars, host, fetches, latest, lastFetch>>

-----------------------------------------------------------------------------
(* The whole widget in its first version: page loaded, dialog attached and  *)
(* closed, host empty.                                                      *)

\* A dialog element just constructed: its AbortController is new, nothing is registered.
\* cartRevokedBy and closeRevokedBy keep how each listener was last taken away;
\* reflowed (history) tells whether the last close event ran #handleDialogClose.
NewDialog ==
    [open |-> FALSE, connected |-> FALSE, aborted |-> FALSE,
     cartListener |-> FALSE, closeListener |-> FALSE,
     cartRevokedBy |-> "", closeRevokedBy |-> "", reflowed |-> FALSE]

\* connectedCallback of the dialog: addEventListener with an aborted signal registers
\* nothing.
connectDialog(d) ==
    [d EXCEPT !.connected = TRUE,
              !.cartListener = ~d.aborted,
              !.closeListener = TRUE]

\* Faulty variant: the close listener is not removed.
disconnectDialogKeepingClose(d) ==
    [d EXCEPT !.connected = FALSE,
              !.aborted = TRUE,
              !.cartListener = FALSE,
              !.cartRevokedBy = IF d.cartListener THEN "abort" ELSE @]

\* disconnectedCallback of the dialog: abort() takes away the listeners registered with
\* the signal, removeEventListener the close listener.
disconnectDialog(d) ==
    [d EXCEPT !.connected = FALSE,
              !.aborted = TRUE,
              !.cartListener = FALSE,
              !.cartRevokedBy = IF d.cartListener THEN "abort" ELSE @,
              !.closeListener = FALSE,
              !.closeRevokedBy = IF d.closeListener THEN "removeEventListener" ELSE @]

ConnectedDialog == connectDialog(NewDialog)

NoSignal ==
    [confirm |-> 0, emitted |-> FALSE, didError |-> FALSE, added |-> FALSE,
     response |-> "none", delay |-> 0, observed |-> FALSE]

PageInit ==
    /\ addedClass = FALSE
    /\ last = NoRun /\ prev = NoRun
    /\ fetches = [t \in Triggers |-> 0]
    /\ latest = ""
    /\ lastFetch = [trigger |-> "", outcome |-> "none"]
    /\ stayVisible = [t \in Triggers |-> FALSE]
    /\ closeOnce = {}
    /\ confirms = [k \in 1..MaxConfirms |-> Idle]
    /\ signal = NoSignal

Init ==
    /\ version = 1
    /\ moneyFormat = NoTemplate
    /\ frag = <<>> /\ selects = <<>> /\ cards = <<>> /\ listening = <<>>
    /\ subtotal = ""
    /\ recording = FALSE
    /\ host = [kind |-> "empty", text |-> ""]
    /\ dialog = ConnectedDialog
    /\ PageInit

Next ==
    \/ \E t \in Triggers : TriggerClick(t)
    \/ \E t \in Triggers, ok \in BOOLEAN : FetchResolve(t, ok)
    \/ \E t \in Triggers : FetchReject(t)
    \/ \E c \in Cards : ClickCard(c)
    \/ \E c \in Cards : ClickCheckbox(c)
    \/ \E c \in Cards, i \in 1..3 : ClickSelect(c, i)
    \/ \E c \in Cards, i \in 1..3, v \in OptionValues : ChangeSelect(c, i, v)
    \/ ClickClose
    \/ DismissDialog
    \/ Confirm
    \/ \E k \in 1..MaxConfirms, ok \in BOOLEAN : PostRespond(k, ok)
    \/ \E k \in 1..MaxConfirms : PostFail(k)
    \/ \E k \in 1..MaxConfirms : TimerFire(k)

Spec == Init /\ [][Next]_vars

\* Timers fire: the event loop runs every pending timer callback.
FairSpec ==
    /\ Spec
    /\ \A k \in 1..MaxConfirms : WF_vars(TimerFire(k))

-----------------------------------------------------------------------------
(* The controller alone: any fragment attached in an open dialog, and any   *)
(* sequence of user events on it, with the history kept.                    *)

ContentInit ==
    /\ version \in {1, 2}
    /\ moneyFormat \in (IF version = 1 THEN MoneyFormats ELSE {NoTemplate})
    /\ \E rendered \in Fragments :
          LET st == connectedState(rendered, version, moneyFormat) IN
          /\ frag = [c \in DOMAIN rendered |-> StaticOf(rendered[c])]
          /\ selects = [c \in DOMAIN rendered |-> rendered[c].selects]
          /\ listening = listenersAtConnect(rendered)
          /\ cards = st.cards
          /\ subtotal = st.subtotal
    /\ recording = TRUE
    /\ host = [kind |-> "markup", text |-> "h1"]
    /\ dialog = showDialog(ConnectedDialog)
    /\ PageInit

ContentNext ==
    \/ \E c \in Cards : ClickCard(c)
    \/ \E c \in Cards : ClickCheckbox(c)
    \/ \E c \in Cards, i \in 1..3 : ClickSelect(c, i)
    \/ \E c \in Cards, i \in 1..3, v \in OptionValues : ChangeSelect(c, i, v)

ContentSpec == ContentInit /\ [][ContentNext]_vars

-----------------------------------------------------------------------------
(* The dialog's lifetime: the page with its triggers, the dialog element    *)
(* removed from the document and attached again, and cart-update events     *)
(* reaching it from the theme, with the history kept.                       *)

DialogFrame == UNCHANGED <<contentVars, host, fetches, latest, lastFetch, confirmVars>>

\* The dialog element is removed from the document.
Disconnect ==
    /\ dialog.connected
    /\ dialog' = disconnectDialog(dialog)
    /\ Record("disconnect", 0, 0, "")
    /\ UNCHANGED <<stayVisible, closeOnce>>
    /\ DialogFrame

\* The same dialog element is attached again.
Reconnect ==
    /\ ~dialog.connected
    /\ dialog' = connectDialog(dialog)
    /\ Record("reconnect", 0, 0, "")
    /\ UNCHANGED <<stayVisible, closeOnce>>
    /\ DialogFrame

\* A cart-update event of the theme reaches the dialog element.
CartUpdateSignal(didError) ==
    /\ HandleCartUpdate(didError)
    /\ Record(IF didError THEN "cartUpdateError" ELSE "cartUpdate", 0, 0, "")
    /\ DialogFrame

\* closeDialog is called on the dialog while it is out of the document.
CloseRemoved ==
    /\ ~dialog.connected
    /\ dialog.open
    /\ CloseDialog
    /\ Record("closeRemoved", 0, 0, "")
    /\ DialogFrame

DialogInit ==
    /\ version = 1
    /\ moneyFormat = NoTemplate
    /\ frag = <<>> /\ selects = <<>> /\ cards = <<>> /\ listening = <<>>
    /\ subtotal = ""
    /\ recording = TRUE
    /\ host = [kind |-> "empty", text |-> ""]
    /\ dialog = ConnectedDialog
    /\ PageInit

DialogNext ==
    \/ \E t \in Triggers : TriggerClick(t)
    \/ \E t \in Triggers, ok \in BOOLEAN : FetchResolve(t, ok)
    \/ \E t \in Triggers : FetchReject(t)
    \/ DismissDialog
    \/ \E didError \in BOOLEAN : CartUpdateSignal(didError)
    \/ Disconnect
    \/ Reconnect
    \/ CloseRemoved

DialogSpec == DialogInit /\ [][DialogNext]_vars

-----------------------------------------------------------------------------
(* The money formatter on its inputs: a card whose variants carry the       *)
(* amounts, under every placeholder the formatter knows and without a       *)
(* template; the user's events make the controller format them.             *)

Placeholders ==
    {"amount", "amount_no_decimals", "amount_with_comma_separator",
     "amount_no_decimals_with_comma_separator", "amount_no_decimals_with_space_separator",
     "amount_with_space_separator", "amount_with_period_and_space_separator",
     "amount_with_apostrophe_separator"}

\* Amounts with and without a fraction, with a tie and a carry when rounded to units,
\* below one unit, and with three groups of digits.
VariantsPriced ==
    << Variant(51, "S", "R", Null, 2500, TRUE, "", ""),
       Variant(52, "S", "B", Null, 50, TRUE, "", ""),
       Variant(53, "M", "R", Null, 99950, TRUE, "", ""),
       Variant(54, "M", "B", Null, 1005, TRUE, "", ""),
       Variant(55, "L", "R", Null, 123456789, TRUE, "", ""),
       Variant(56, "L", "B", Null, 100049, TRUE, "", "") >>

PricedCard ==
    RenderedCard(FALSE, VariantsPriced, <<{"S", "M", "L"}, {"R", "B"}>>, <<"S", "R">>,
                 51, 2500, TRUE, FALSE)

MoneyInit ==
    /\ version = 1
    /\ moneyFormat \in {NoTemplate} \cup {Template("", ph, "") : ph \in Placeholders}
                         \cup {Template("EUR ", "amount", " net")}
    /\ LET rendered == <<PricedCard>>
           st == connectedState(rendered, version, moneyFormat)
       IN  /\ frag = [c \in DOMAIN rendered |-> StaticOf(rendered[c])]
           /\ selects = [c \in DOMAIN rendered |-> rendered[c].selects]
           /\ listening = listenersAtConnect(rendered)
           /\ cards = st.cards
           /\ subtotal = st.subtotal
    /\ recording = TRUE
    /\ host = [kind |-> "markup", text |-> "h1"]
    /\ dialog = showDialog(ConnectedDialog)
    /\ PageInit

MoneySpec == MoneyInit /\ [][ContentNext]_vars

-----------------------------------------------------------------------------
(* Properties.                                                              *)

\* The cards that carry data-selected="true".
SelectedCards == {c \in Cards : cards[c].selected}

\* The sum of the cards' data-price over a set of cards.
RECURSIVE PriceSum(_)
PriceSum(S) ==
    IF S = {} THEN 0
    ELSE LET c == CHOOSE x \in S : TRUE IN cards[c].price + PriceSum(S \ {c})

\* C1: in every state the controller can reach after it connected, the displayed
\* subtotal is the money-formatted sum of the data-price of exactly the cards whose
\* data-selected is "true".
C1_SubtotalIsSelectedSum ==
    subtotal = formatMoney(PriceSum(SelectedCards), version, moneyFormat)

\* C1 witness: after a toggle, two selected cards priced 1000 and 1500 cents show 25.00.
C1_Witness ==
    /\ last.op \in Toggles
    /\ Len(cards) = 2
    /\ cards[1].selected /\ cards[1].price = 1000
    /\ cards[2].selected /\ cards[2].price = 1500
    /\ last.card = 2 /\ ~last.wasSelected
    /\ subtotal = "25.00"

\* The cards #handleConfirm turns into items, and the list the claim describes: one
\* {id, quantity 1} per selected card with a non-empty variant id, in document order.
ItemCards == {c \in Cards : cards[c].selected /\ cards[c].variantId # 0}

ClaimedItems ==
    [j \in 1..Cardinality(ItemCards) |->
        LET c == CHOOSE x \in ItemCards : Cardinality({y \in ItemCards : y <= x}) = j
        IN  [id |-> cards[c].variantId, quantity |-> 1]]

\* The confirms whose POST this step sends.
Sent == {k \in 1..MaxConfirms : confirms[k].phase # "post" /\ confirms'[k].phase = "post"}

\* C2: a confirm builds one {id, quantity 1} item per selected card with a non-empty
\* variant id; with a non-empty list it sends exactly one POST carrying exactly that
\* list, and with an empty list it sends nothing.
C2_ConfirmPostsSelectedItems ==
    /\ []((Interactive /\ cards # <<>> /\ FreeSlots # {} /\ ClaimedItems # <<>>)
            => ENABLED (Confirm /\ Cardinality(Sent) = 1
                          /\ \A k \in Sent : confirms'[k].body = ClaimedItems))
    /\ [][/\ Cardinality(Sent) <= 1
          /\ \A k \in Sent : confirms'[k].body = ClaimedItems /\ ClaimedItems # <<>>]_vars

\* C2 witness: a POST in flight carrying the two items of the selected cards with a
\* variant id, the selected card without one left out.
C2_Witness ==
    \E k \in 1..MaxConfirms :
        /\ confirms[k].phase = "post"
        /\ confirms[k].body = <<[id |-> 41, quantity |-> 1], [id |-> 42, quantity |-> 1]>>
        /\ cards[1].selected /\ cards[1].variantId = 0

\* C3: after a confirm's POST succeeded, the cart-update signal with didError false is
\* eventually emitted, only once the confirm control has its 'added' state and the
\* 2000 ms timer ran, and a dialog observing the signal is closed by it.
C3_SuccessEventuallySignals ==
    /\ \A k \in 1..MaxConfirms :
          (confirms[k].phase = "timer")
             ~> (confirms[k].phase # "timer" /\ signal.confirm = k /\ signal.emitted)
    /\ [](\A k \in 1..MaxConfirms :
             confirms[k].phase = "timer" =>
                /\ confirms[k].added /\ confirms[k].timer = 2000
                /\ confirms[k].attached => addedClass)
    /\ [](signal.emitted =>
             ~signal.didError /\ signal.added /\ signal.delay = 2000
                /\ signal.response = "ok")
    /\ [][\A k \in 1..MaxConfirms :
             (confirms[k].phase = "timer" /\ confirms'[k].phase # "timer")
                => /\ signal'.confirm = k /\ signal'.emitted
                   /\ signal'.observed => ~dialog'.open]_vars

\* C3 witness: the signal of a successful confirm was observed by the dialog, which is
\* closed.
C3_Witness ==
    /\ signal.confirm = 1 /\ signal.emitted /\ signal.observed /\ signal.response = "ok"
    /\ ~dialog.open

\* C4: when the POST fails (non-ok status or rejection) the failure is caught: no
\* cart-update signal and no 'added' state for that confirm, no retry, the dialog as it
\* was (open), the selection unchanged.
C4_FailedPostChangesNothing ==
    /\ [](\A k \in 1..MaxConfirms :
             confirms[k].phase = "timer" => confirms[k].response = "ok")
    /\ [](signal.emitted <=> signal.response = "ok")
    /\ [][\A k \in 1..MaxConfirms :
             (confirms[k].phase = "post" /\ confirms'[k].phase # "post"
                /\ confirms'[k].response # "ok")
                => /\ confirms'[k].phase = "idle"
                   /\ ~confirms'[k].added /\ confirms'[k].timer = 0
                   /\ signal'.confirm = k /\ ~signal'.emitted
                   /\ addedClass' = addedClass
                   /\ dialog' = dialog
                   /\ cards' = cards /\ selects' = selects /\ subtotal' = subtotal
                   /\ Sent = {}]_vars

\* C4 witness: a confirm's POST came back with a non-ok status; the dialog is open, no
\* signal was emitted, the button has no 'added' state and the cards are as rendered.
C4_Witness ==
    /\ signal.confirm = 1 /\ signal.response = "error" /\ ~signal.emitted
    /\ confirms[1].phase = "idle"
    /\ dialog.open /\ ~addedClass
    /\ Len(cards) = 3 /\ cards[2].selected /\ cards[3].selected

\* The fallback paragraph the claim describes for each trigger.
ClaimedFallback(t) ==
    IF t = "t1"
    THEN "<p style=\"padding: 2rem; text-align: center;\">Back soon.</p>"
    ELSE "<p style=\"padding: 2rem; text-align: center;\">Unable to load products. Please try again.</p>"

\* C5: when the fragment fetch fails, the trigger writes the fallback message (the
\* configured error message, or the default) into the content host and shows the dialog.
C5_FetchFailureShowsFallback ==
    [][\A t \in Triggers :
          (fetches'[t] < fetches[t] /\ lastFetch' = [trigger |-> t, outcome |-> "rejected"])
             => /\ host' = [kind |-> "fallback", text |-> ClaimedFallback(t)]
                /\ dialog'.open]_vars

\* C5 witness: the fetch of the trigger with a configured message failed; the host
\* holds that message and the dialog is open.
C5_Witness ==
    /\ lastFetch = [trigger |-> "t1", outcome |-> "rejected"]
    /\ host = [kind |-> "fallback",
               text |-> "<p style=\"padding: 2rem; text-align: center;\">Back soon.</p>"]
    /\ dialog.open

\* The variant whose id the card carries is marked unavailable in the card's data.
CurrentVariantUnavailable(c) ==
    \E i \in DOMAIN frag[c].variants :
        frag[c].variants[i].id = cards[c].variantId /\ ~frag[c].variants[i].available

\* A card that must not be selected: no variant id, or an unavailable variant.
NotForSale(c) == cards[c].variantId = 0 \/ CurrentVariantUnavailable(c)

\* C6 as stated: in every reachable state no card, main or add-on, whose current
\* variant is unavailable or whose variant id is empty is selected; its checkbox is
\* disabled and unchecked.
C6_NoCardNotForSaleSelected ==
    \A c \in Cards :
        NotForSale(c) => ~cards[c].selected /\ cards[c].disabled /\ ~cards[c].checked

\* C6 amended: in every reachable state no add-on (non-main) card whose current variant
\* is unavailable or whose variant id is empty is selected; its checkbox is disabled
\* and unchecked. A main card keeps its selection when its variant changes.
C6_NoAddOnNotForSaleSelected ==
    \A c \in Cards :
        (~frag[c].main /\ NotForSale(c))
            => ~cards[c].selected /\ cards[c].disabled /\ ~cards[c].checked

\* C6 witness: an add-on that could be toggled when the fragment connected now carries
\* an unavailable variant and is deselected and disabled, next to a main card that
\* carries an unavailable variant and is still selected.
C6_Witness ==
    \E m, a \in Cards :
        /\ frag[m].main /\ CurrentVariantUnavailable(m) /\ cards[m].selected
        /\ ~frag[a].main /\ listening[a] /\ CurrentVariantUnavailable(a)
        /\ ~cards[a].selected /\ cards[a].disabled /\ ~cards[a].checked

\* The matching rule as the claims word it: option1 equals the first selected value,
\* option2 and option3 equal the corresponding selected value or are null in the data.
ClaimMatches(v, sel) ==
    /\ Len(sel) >= 1 /\ v.option1 = sel[1]
    /\ \A i \in {2, 3} :
          LET o == IF i = 2 THEN v.option2 ELSE v.option3
          IN  o = Null \/ (i <= Len(sel) /\ o = sel[i])

\* The positions of the variants of card c that match the combination sel.
Matching(c, sel) ==
    {i \in DOMAIN frag[c].variants : ClaimMatches(frag[c].variants[i], sel)}

FirstMatching(c, sel) == CHOOSE i \in Matching(c, sel) : \A j \in Matching(c, sel) : i <= j

\* C7: after a variant change on a non-main card whose matched variant is unavailable,
\* the card is disabled, unchecked, unselected and left out of the subtotal, and later
\* clicks on the card do not change its selection.
C7_UnavailableAddOnIsInert ==
    /\ [](\A c \in Cards :
             (/\ last.op = "changeSelect" /\ last.card = c
              /\ ~frag[c].main
              /\ Matching(c, selects[c]) # {}
              /\ ~frag[c].variants[FirstMatching(c, selects[c])].available)
                => /\ cards[c].disabled /\ ~cards[c].checked /\ ~cards[c].selected
                   /\ subtotal = formatMoney(PriceSum(SelectedCards \ {c}),
                                             version, moneyFormat))
    /\ [][\A c \in Cards :
             (/\ ~frag[c].main /\ cards[c].unavailable
              /\ last'.op = "clickCard" /\ last'.card = c)
                => ~cards'[c].selected /\ cards'[c] = cards[c] /\ subtotal' = subtotal]_vars

\* C7 witness: a click just handled on an add-on that was enabled when the fragment
\* connected and has since been switched to an unavailable variant.
C7_Witness ==
    /\ last.op = "clickCard"
    /\ last.card \in Cards
    /\ ~frag[last.card].main /\ listening[last.card]
    /\ CurrentVariantUnavailable(last.card)
    /\ cards[last.card].unavailable /\ ~cards[last.card].selected

\* C8 as stated: after a variant change whose combination has a matching variant, the
\* card carries the id and price of the unique matching variant.
C8_UniqueMatchChosen ==
    \A c \in Cards :
        (last.op = "changeSelect" /\ last.card = c /\ Matching(c, selects[c]) # {})
            => /\ Cardinality(Matching(c, selects[c])) = 1
               /\ \A i \in Matching(c, selects[c]) :
                     /\ cards[c].variantId = frag[c].variants[i].id
                     /\ cards[c].price = frag[c].variants[i].price

\* C8 amended: after a variant change whose combination has a matching variant, the
\* card carries the id and price of the first matching variant in list order (the
\* only one when just one matches); no other variant is chosen.
C8_FirstMatchChosen ==
    \A c \in Cards :
        (last.op = "changeSelect" /\ last.card = c /\ Matching(c, selects[c]) # {})
            => LET v == frag[c].variants[FirstMatching(c, selects[c])]
               IN  cards[c].variantId = v.id /\ cards[c].price = v.price

\* C8 witness: a change to a combination two variants match, the first one chosen.
C8_Witness ==
    /\ last.op = "changeSelect"
    /\ last.card \in Cards
    /\ Matching(last.card, selects[last.card]) = {1, 2}
    /\ cards[last.card].variantId = frag[last.card].variants[1].id
    /\ cards[last.card].price = frag[last.card].variants[1].price

\* C9: a variant change whose combination matches no variant leaves the card's variant
\* id, price, displayed price, SKU text, image, availability flags, checkbox state,
\* selection flag and the subtotal as they were.
C9_NoMatchChangesNothing ==
    [][\A c \in Cards :
          (selects'[c] # selects[c] /\ Matching(c, selects'[c]) = {})
             => cards' = cards /\ subtotal' = subtotal]_vars

\* C9 witness: a change just handled on a card with variants, none of which matches.
C9_Witness ==
    /\ last.op = "changeSelect"
    /\ last.card \in Cards
    /\ frag[last.card].variants # <<>>
    /\ Matching(last.card, selects[last.card]) = {}
    /\ cards[last.card].selected

\* C10 as stated: for a card with an enabled checkbox, two toggles in a row (by card
\* click or by checkbox click) bring its checked state, its selection flag and the
\* subtotal back to what they were before the first, every other card unchanged.
C10_DoubleToggleRestores ==
    (/\ prev.op \in Toggles /\ last.op \in Toggles
     /\ ~prev.before.cards[last.card].disabled)
        => /\ cards[last.card].checked = prev.before.cards[last.card].checked
           /\ cards[last.card].selected = prev.before.cards[last.card].selected
           /\ subtotal = prev.before.subtotal
           /\ \A d \in Cards \ {last.card} : cards[d] = prev.before.cards[d]

\* C11: one user activation flips a card's selection exactly once: a click on the card
\* outside its controls flips it, a click on the checkbox flips it once (the bubbling
\* click does not flip it again), a click on a variant selector does not flip it.
C11_OneFlipPerActivation ==
    \A c \in Cards :
        last.card = c =>
            /\ (last.op = "clickCard" /\ ~last.before.cards[c].disabled)
                  => cards[c].selected = ~last.wasSelected
            /\ last.op = "clickCheckbox" => cards[c].selected = ~last.wasSelected
            /\ last.op = "clickSelect" => cards[c].selected = last.wasSelected

\* C12: the dialog is closed or open; a cart-update signal it receives while open
\* closes it if and only if the payload's didError is false, and one with didError true
\* leaves the dialog as it is.
C12_CartUpdateClosesUnlessError ==
    /\ [](dialog.open \in BOOLEAN)
    /\ [][(dialog.open /\ dialog.cartListener)
             => /\ last'.op = "cartUpdate" => ~dialog'.open
                /\ last'.op = "cartUpdateError" => dialog' = dialog]_vars

\* C12 witness: an open dialog has just received a cart-update signal with didError
\* true and is still open.
C12_Witness ==
    /\ last.op = "cartUpdateError"
    /\ dialog.cartListener /\ dialog.open

\* The separators and precision the claim gives each placeholder.
ClaimedStyle(ph) ==
    CASE ph = "amount" -> [thousands |-> ",", decimal |-> ".", precision |-> 2]
      [] ph = "amount_no_decimals" -> [thousands |-> ",", decimal |-> ".", precision |-> 0]
      [] ph = "amount_with_comma_separator" ->
            [thousands |-> ".", decimal |-> ",", precision |-> 2]
      [] ph = "amount_no_decimals_with_comma_separator" ->
            [thousands |-> ".", decimal |-> ",", precision |-> 0]
      [] ph = "amount_no_decimals_with_space_separator" ->
            [thousands |-> " ", decimal |-> ".", precision |-> 0]
      [] ph = "amount_with_space_separator" ->
            [thousands |-> " ", decimal |-> ",", precision |-> 2]
      [] ph = "amount_with_period_and_space_separator" ->
            [thousands |-> " ", decimal |-> ".", precision |-> 2]
      [] ph = "amount_with_apostrophe_separator" ->
            [thousands |-> "'", decimal |-> ".", precision |-> 2]

\* A number below 1000 as three digits, one below 100 as two.
ThreeDigits(k) ==
    IF k < 10 THEN "00" \o ToString(k) ELSE IF k < 100 THEN "0" \o ToString(k) ELSE ToString(k)

TwoDigits(k) == IF k < 10 THEN "0" \o ToString(k) ELSE ToString(k)

\* The decimal numeral of n, grouped in threes from the right.
RECURSIVE GroupedInThrees(_, _)
GroupedInThrees(n, sep) ==
    IF n < 1000 THEN ToString(n)
    ELSE GroupedInThrees(n \div 1000, sep) \o sep \o ThreeDigits(n % 1000)

\* The amount the claim describes for cents under a template.
ClaimedMoney(cents, tpl) ==
    IF ~tpl.present
    THEN ToString(cents \div 100) \o "." \o TwoDigits(cents % 100)
    ELSE LET style == ClaimedStyle(tpl.placeholder)
             number ==
                 IF style.precision = 0
                 THEN GroupedInThrees((2 * cents + 100) \div 200, style.thousands)
                 ELSE GroupedInThrees(cents \div 100, style.thousands)
                        \o style.decimal \o TwoDigits(cents % 100)
         IN  tpl.prefix \o number \o tpl.suffix

\* C13: for every amount of minor units and each supported placeholder the formatter
\* outputs the amount divided by 100, rounded to the placeholder's precision, grouped
\* in threes by its thousands separator and joined to the fraction by its decimal
\* separator; without a template the two-decimal form without grouping. 2500 gives
\* "25.00" by default, "25" without decimals and "25,00" with the comma decimal.
C13_FormatterFollowsPlaceholder ==
    /\ subtotal = ClaimedMoney(PriceSum(SelectedCards), moneyFormat)
    /\ \A c \in Cards :
          cards[c].priceText \in {"(rendered)", ClaimedMoney(cards[c].price, moneyFormat)}
    /\ PriceSum(SelectedCards) = 2500 =>
          /\ moneyFormat = NoTemplate => subtotal = "25.00"
          /\ moneyFormat = Template("", "amount", "") => subtotal = "25.00"
          /\ moneyFormat = Template("", "amount_no_decimals", "") => subtotal = "25"
          /\ moneyFormat = Template("", "amount_with_comma_separator", "") =>
                subtotal = "25,00"

\* C13 witness: after a variant change 1,234,567.89 is shown with the apostrophe
\* separator, on the card and as the subtotal.
C13_Witness ==
    /\ last.op = "changeSelect"
    /\ moneyFormat = Template("", "amount_with_apostrophe_separator", "")
    /\ cards[1].price = 123456789
    /\ cards[1].priceText = "1'234'567.89"
    /\ subtotal = "1'234'567.89"

\* The fetch of trigger t has just completed, with a response or a failure.
FetchCompleted(t) == fetches'[t] < fetches[t]

\* What the content host holds once a fetch of trigger t has completed.
ReplacedHost(t) ==
    host' \in {[kind |-> "markup", text |-> productHandle(t)],
               [kind |-> "markup", text |-> "(error page)"],
               [kind |-> "fallback", text |-> ClaimedFallback(t)]}

\* C14: an activation with a product handle ends, whatever the fetch outcome, with the
\* content host replaced, the trigger marked stay-visible and the dialog shown; the mark
\* stays while the dialog stays open and is cleared when the dialog's close signal
\* fires, so no trigger is marked stay-visible while the dialog is closed.
C14_StayVisibleUntilClose ==
    /\ [](\A t \in Triggers : stayVisible[t] => dialog.open)
    /\ [][\A t \in Triggers :
            /\ FetchCompleted(t) =>
                  /\ productHandle(t) # ""
                  /\ ReplacedHost(t)
                  /\ host'.kind = (IF lastFetch'.outcome = "rejected" THEN "fallback" ELSE "markup")
                  /\ stayVisible'[t]
                  /\ dialog'.open
            /\ (stayVisible[t] /\ dialog'.open) => stayVisible'[t]
            /\ (dialog.open /\ ~dialog'.open) => ~stayVisible'[t]]_vars

\* C14 witness: two triggers were activated, one fetch failed and one succeeded, both
\* are marked stay-visible and the dialog is open.
C14_Witness ==
    /\ stayVisible["t1"] /\ stayVisible["t2"]
    /\ dialog.open
    /\ lastFetch.outcome = "rejected"
    /\ \A t \in Triggers : fetches[t] = 0

\* C15: a trigger activated without a product handle aborts: no fetch is issued, the
\* content host is not modified, the trigger is not marked stay-visible and the dialog
\* state is unchanged.
C15_NoHandleAborts ==
    [][(last'.op = "triggerClick" /\ productHandle(last'.trigger) = "")
          => /\ fetches' = fetches
             /\ host' = host
             /\ stayVisible' = stayVisible
             /\ ~stayVisible'[last'.trigger]
             /\ dialog' = dialog]_vars

\* C15 witness: the trigger without a handle was activated while the dialog was closed
\* and a fetch of another trigger was pending.
C15_Witness ==
    /\ last.op = "triggerClick"
    /\ productHandle(last.trigger) = ""
    /\ ~dialog.open
    /\ fetches["t1"] = 1
    /\ fetches[last.trigger] = 0

\* A removed dialog has no listener left.
NoListenerWhileRemoved ==
    ~dialog.connected => (~dialog.cartListener /\ ~dialog.closeListener)

\* A removed dialog is not closed by a cart-update signal, and a close signal on it
\* does not run the reflow workaround.
RemovedDialogIgnoresSignals ==
    ~dialog.connected =>
        /\ last'.op \in {"cartUpdate", "cartUpdateError"} => dialog' = dialog
        /\ last'.op = "closeRemoved" => ~dialog'.reflowed

C17_PositionalFirstMatch ==
    \A c \in Cards :
        (last.op = "changeSelect" /\ last.card = c) =>
            LET vs == frag[c].variants
                sel == selects[c]
                Fits(v) ==
                    /\ v.option1 = sel[1]
                    /\ IF Len(sel) >= 2 THEN v.option2 \in {sel[2], Null}
                                        ELSE v.option2 = Null
                    /\ IF Len(sel) >= 3 THEN v.option3 \in {sel[3], Null}
                                        ELSE v.option3 = Null
                m == last.matched
            IN  /\ m = 0 => \A i \in DOMAIN vs : ~Fits(vs[i])
                /\ m # 0 =>
                      /\ m \in DOMAIN vs
                      /\ Fits(vs[m])
                      /\ \A j \in 1..(m - 1) : ~Fits(vs[j])
                      /\ cards[c].variantId = vs[m].id
                      /\ cards[c].price = vs[m].price

\* C17 witness: on a card with one selector a change chose a variant further down the
\* list, whose second and third options are null.
C17_Witness ==
    /\ last.op = "changeSelect"
    /\ last.card \in Cards
    /\ Len(selects[last.card]) = 1
    /\ last.matched >= 2
    /\ \E j \in 1..(last.matched - 1) :
          /\ frag[last.card].variants[j].option1 = selects[last.card][1]
          /\ frag[last.card].variants[j].option2 # Null
    /\ frag[last.card].variants[last.matched].option1 = selects[last.card][1]
    /\ cards[last.card].variantId = frag[last.card].variants[last.matched].id

\* C18: in every reachable state of the content controller each card's selection flag
\* (data-selected) agrees with its checkbox's checked state, also for a card whose
\* checkbox was disabled when the fragment was attached, was enabled by a variant
\* change to an available variant, and was then changed by the user.
C18_SelectedAgreesWithChecked ==
    \A c \in Cards : cards[c].selected = cards[c].checked

\* C19: after any sequence of removals and re-attachments of the dialog, whenever the
\* dialog is attached and open, a cart-update signal with didError false closes it.
C19_AutoCloseWheneverAttached ==
    [][(dialog.connected /\ dialog.open /\ last'.op = "cartUpdate") => ~dialog'.open]_vars

\* C20: when triggers were activated with different product handles while a fetch was
\* pending, then once every fetch has completed, the last of them with a fragment, the
\* content host holds the fragment of the most recent activation, in whatever order
\* the responses arrived.
C20_LatestActivationWins ==
    (/\ latest # ""
     /\ \A t \in Triggers : fetches[t] = 0
     /\ lastFetch.outcome = "ok")
        => host = [kind |-> "markup", text |-> productHandle(latest)]

\* The price of the card that carries variant id.
PriceOfVariant(id) == cards[CHOOSE c \in Cards : cards[c].variantId = id].price

\* The sum of the prices of the cards whose variant ids a payload lists.
RECURSIVE PostedPriceSum(_)
PostedPriceSum(body) ==
    IF body = <<>> THEN 0
    ELSE PriceOfVariant(Head(body).id) + PostedPriceSum(Tail(body))

\* C21: at every confirm that issues a POST, the sum of the prices of the cards whose
\* variant ids appear in the posted payload equals the amount shown as subtotal at that
\* moment: the cards counted in the subtotal are exactly the cards submitted.
C21_PostedSumIsSubtotal ==
    [][\A k \in Sent :
          subtotal = formatMoney(PostedPriceSum(confirms'[k].body), version, moneyFormat)]_vars

====
